---- MODULE Spec2Model ----
(***************************************************************************)
(* A model of OpenLCS's bulk-import orchestration (packages/serializers),  *)
(* release package bookkeeping and tree nodes (products/models) and the    *)
(* grouping / archive helpers (libs/common).                               *)
(*                                                                         *)
(* Each part of the program has its own specification (SpecImport,         *)
(* SpecPackages, SpecTree, SpecGroup, SpecArchive); the variables of the   *)
(* other parts stay parked at their initial value.                         *)
(***************************************************************************)
EXTENDS Integers, Sequences, FiniteSets, TLC

VARIABLES
    \* ---- bulk import (packages/serializers.py)
    releases,       \* Release rows: [product, version, name]
    data,           \* the request's data, a dict
    user_id,        \* the owner handed to fork_import_tasks
    validation,     \* outcome of is_valid(): pending / valid / invalid / error
    pc,             \* position of fork_import_tasks
    todo,           \* the list get_tasks_params() returned
    idx,            \* index of the next item of todo
    sent,           \* messages handed to app.send_task, in order
    tasks,          \* Task rows, in creation order
    result,         \* the dict fork_import_tasks builds
    \* ---- release packages (products/models.py)
    rows,           \* ReleasePackage rows: [id, release, package_nvr, is_source]
    calls,          \* per worker: the update_packages call it runs
    \* ---- tree nodes (products/models.py) and get_provides
    productNodes,   \* ProductTreeNode rows: [id, parent, content_type, object_id]
    componentNodes, \* ComponentTreeNode rows
    nextNodeId,     \* per tree: the id the next inserted node gets
    provides,       \* the last get_provides call and what it returned
    \* ---- grouping helpers (libs/common.py)
    components,     \* the list handed to group_components
    grouped,        \* what group_components returned
    nvr_call,       \* the last get_nvr_list_from_components call
    \* ---- archive helpers (libs/common.py)
    orig,           \* the directory tree T that was copied to src_dir
    src_dir,        \* the directory handed to compress_source_to_tarball
    tarball,        \* the archive file
    dest_dir,       \* the directory uncompress_source_tarball extracts to
    apc             \* position of the pack / extract sequence

importVars  == <<releases, data, user_id, validation, pc, todo, idx, sent, tasks, result>>
packageVars == <<rows, calls>>
treeVars    == <<productNodes, componentNodes, nextNodeId, provides>>
groupVars   == <<components, grouped, nvr_call>>
archiveVars == <<orig, src_dir, tarball, dest_dir, apc>>
vars == <<importVars, packageVars, treeVars, groupVars, archiveVars>>

\* An operation of one part leaves the other parts' state alone
OnlyImport   == UNCHANGED <<packageVars, treeVars, groupVars, archiveVars>>
OnlyPackages == UNCHANGED <<importVars, treeVars, groupVars, archiveVars>>
OnlyTree     == UNCHANGED <<importVars, packageVars, groupVars, archiveVars>>
OnlyGroup    == UNCHANGED <<importVars, packageVars, treeVars, archiveVars>>
OnlyArchive  == UNCHANGED <<importVars, packageVars, treeVars, groupVars>>

\* Python's None
None == "None"

\* Sequences over S of length at most n
BoundedSeq(S, n) == UNION {[1..k -> S] : k \in 0..n}

Range(s) == {s[i] : i \in DOMAIN s}

\* dict.get(k, default)
Get(d, k, default) == IF k \in DOMAIN d THEN d[k] ELSE default

(***************************************************************************)
(* Bulk import: release_validator, ReleaseImportMixin, NVRImportSerializer *)
(* and ImportSerializer.fork_import_tasks.                                 *)
(***************************************************************************)

\* Largest package_nvrs list of a request
MaxBatch == 3

Products == {"a", "a-b"}
Versions == {"c", "b-c"}
PackageNvrs == {"foo-1-2", "bar-1-2"}
Users == {7, 8}

\* 'name' is a joint string: product-version
ReleaseName(product, version) == product \o "-" \o version

\* The release names a request may give
RequestedReleases == {"a-c", "a-b-c", "nope"}

\* The request data a client may submit: package_nvrs, and optionally
\* product_release (null allowed), license_scan and srpm_dir.
Requests ==
    { ("package_nvrs" :> nvrs) @@ pr @@ ls @@ sd :
        nvrs \in BoundedSeq(PackageNvrs, MaxBatch),
        pr \in {<<>>} \cup {"product_release" :> v : v \in RequestedReleases \cup {None}},
        ls \in {<<>>, "license_scan" :> FALSE},
        sd \in {<<>>, "srpm_dir" :> "/srpms"} }

InitImport ==
    /\ releases = {}
    /\ data \in Requests
    /\ user_id \in Users
    /\ validation = "pending"
    /\ pc = "start"
    /\ todo = <<>>
    /\ idx = 1
    /\ sent = <<>>
    /\ tasks = <<>>
    /\ result = <<>>

ParkedImport ==
    /\ releases = {}
    /\ data = <<>>
    /\ user_id = 0
    /\ validation = "pending"
    /\ pc = "start"
    /\ todo = <<>>
    /\ idx = 1
    /\ sent = <<>>
    /\ tasks = <<>>
    /\ result = <<>>

\* Product.add_release: update_or_create of the release (product, version)
add_release(product, version) ==
    /\ releases' = releases \cup
          {[product |-> product, version |-> version,
            name |-> ReleaseName(product, version)]}
    /\ UNCHANGED <<data, user_id, validation, pc, todo, idx, sent, tasks, result>>
    /\ OnlyImport

\* release_validator: Release.objects.get(name=value)
release_validator(value) ==
    IF value # None
    THEN LET found == {r \in releases : r.name = value}
         IN  IF found = {} THEN "ValidationError"
             ELSE IF Cardinality(found) > 1 THEN "MultipleObjectsReturned"
             ELSE "ok"
    ELSE "ok"

\* is_valid(): the product_release field runs its validators when the value
\* is given and not null.
is_valid ==
    /\ validation = "pending"
    /\ LET value == Get(data, "product_release", None)
           outcome == release_validator(value)
       IN  validation' = CASE outcome = "ok" -> "valid"
                           [] outcome = "ValidationError" -> "invalid"
                           [] OTHER -> "error"
    /\ UNCHANGED <<releases, data, user_id, pc, todo, idx, sent, tasks, result>>
    /\ OnlyImport

\* Python truthiness of an optional string
Truthy(v) == v \notin {None, ""}

\* ReleaseImportMixin.get_task_params
get_task_params(d) ==
    LET srpm_dir == Get(d, "srpm_dir", None)
        product_release == Get(d, "product_release", None)
    IN  ("license_scan" :> Get(d, "license_scan", TRUE))
        @@ ("copyright_scan" :> Get(d, "copyright_scan", TRUE))
        @@ (IF srpm_dir # None THEN "srpm_dir" :> srpm_dir ELSE <<>>)
        @@ (IF Truthy(product_release)
            THEN "product_release" :> product_release ELSE <<>>)

\* A slip: every item's payload names the first item
get_tasks_params_first(d) ==
    LET package_nvrs == d["package_nvrs"]
        params == get_task_params(d)
    IN  [i \in 1..Len(package_nvrs) |->
            <<package_nvrs[i], ("package_nvr" :> package_nvrs[1]) @@ params>>]

\* NVRImportSerializer.get_tasks_params: the list of (key, params)
get_tasks_params(d) ==
    LET package_nvrs == d["package_nvrs"]
        params == get_task_params(d)
    IN  [i \in 1..Len(package_nvrs) |->
            <<package_nvrs[i], ("package_nvr" :> package_nvrs[i]) @@ params>>]

\* The id the worker pool gives the n-th message it accepts
CeleryTaskId(n) == <<"celery", n>>

\* A slip: the record keeps the payload that was sent
TaskRecordSent(owner, meta_id, task_flow, task_params, params) ==
    [id |-> Len(tasks) + 1, owner_id |-> owner, meta_id |-> meta_id,
     task_flow |-> task_flow, params |-> params]

\* Task.objects.create(owner_id, meta_id, task_flow, params=task_params)
TaskRecord(owner, meta_id, task_flow, task_params, params) ==
    [id |-> Len(tasks) + 1, owner_id |-> owner, meta_id |-> meta_id,
     task_flow |-> task_flow, params |-> task_params]

\* ImportSerializer.get_task_flow
get_task_flow == "flow.tasks.flow_default"

\* fork_import_tasks on a serializer with no valid data: validated_data has
\* no package_nvrs, get_tasks_params raises before the loop.
ForkWithoutValidData ==
    /\ pc = "start"
    /\ validation \in {"invalid", "error"}
    /\ pc' = "raised"
    /\ UNCHANGED <<releases, data, user_id, validation, todo, idx, sent, tasks, result>>
    /\ OnlyImport

\* fork_import_tasks up to the loop
ForkBegin ==
    /\ pc = "start"
    /\ validation = "valid"
    /\ todo' = get_tasks_params(data)
    /\ idx' = 1
    /\ result' = <<>>
    /\ pc' = "loop"
    /\ UNCHANGED <<releases, data, user_id, validation, sent, tasks>>
    /\ OnlyImport

\* A slip: a failed dispatch undoes the records made so far
DispatchRaisesRollback ==
    /\ pc = "loop"
    /\ idx <= Len(todo)
    /\ pc' = "dispatch_raised"
    /\ tasks' = <<>>
    /\ UNCHANGED <<releases, data, user_id, validation, todo, idx, sent, result>>
    /\ OnlyImport

\* One iteration in which app.send_task raises: the exception leaves the loop
DispatchRaises ==
    /\ pc = "loop"
    /\ idx <= Len(todo)
    /\ pc' = "dispatch_raised"
    /\ UNCHANGED <<releases, data, user_id, validation, todo, idx, sent, tasks, result>>
    /\ OnlyImport

\* One iteration of the loop: dispatch, then record
ForkItem ==
    /\ pc = "loop"
    /\ idx <= Len(todo)
    /\ LET key == todo[idx][1]
           task_params == todo[idx][2]
           params == ("owner_id" :> user_id) @@ task_params
           task_flow == get_task_flow
           celery_task_id == CeleryTaskId(Len(sent) + 1)
           task == TaskRecord(user_id, celery_task_id, task_flow, task_params, params)
       IN  /\ sent' = Append(sent, [task_flow |-> task_flow, params |-> params,
                                     task_id |-> celery_task_id])
           /\ tasks' = Append(tasks, task)
           /\ result' = (key :> [task_id |-> task.id]) @@ result
    /\ idx' = idx + 1
    /\ UNCHANGED <<releases, data, user_id, validation, todo, pc>>
    /\ OnlyImport

\* The loop is over: return result
ForkReturn ==
    /\ pc = "loop"
    /\ idx > Len(todo)
    /\ pc' = "done"
    /\ UNCHANGED <<releases, data, user_id, validation, todo, idx, sent, tasks, result>>
    /\ OnlyImport

NextImport ==
    \/ \E product \in Products, version \in Versions : add_release(product, version)
    \/ is_valid
    \/ ForkWithoutValidData
    \/ ForkBegin
    \/ ForkItem
    \/ DispatchRaises
    \/ ForkReturn

(***************************************************************************)
(* Release.update_packages and the ReleasePackage table.                   *)
(***************************************************************************)

\* Longest nvr_list of an update_packages call
MaxNvrList == 2

Workers == {"w1", "w2"}
ReleaseIds == {1, 2}
Nvrs == {"foo-1-2", "bar-1-2"}

InitPackages ==
    /\ rows = {}
    /\ calls = [w \in Workers |-> [pc |-> "idle"]]

ParkedPackages == InitPackages

\* A slip: the table has no unique constraint
NoConstraint(objs) == FALSE

\* UniqueConstraint(fields=['release', 'package_nvr']): the insert of objs
\* is refused when one of them repeats the pair of a stored row
unique_release_package_nvr(objs) ==
    \E o \in objs, r \in rows :
        o.release = r.release /\ o.package_nvr = r.package_nvr

\* The rows an insert of objs adds, ids following the table's sequence
RECURSIVE Inserted(_, _)
Inserted(objs, last_id) ==
    IF objs = {} THEN {}
    ELSE LET o == CHOOSE x \in objs : TRUE
         IN  {[id |-> last_id + 1, release |-> o.release,
               package_nvr |-> o.package_nvr, is_source |-> o.is_source]}
             \cup Inserted(objs \ {o}, last_id + 1)

\* A worker calls release.update_packages(nvr_list, is_source)
UpdatePackagesCall(w, release, nvr_list, is_source) ==
    /\ calls[w].pc = "idle"
    /\ calls' = [calls EXCEPT ![w] =
          [pc |-> "called", release |-> release, nvr_list |-> nvr_list,
           is_source |-> is_source]]
    /\ UNCHANGED rows
    /\ OnlyPackages

\* existed_nvrs is read and nvrs = set(nvr_list) - set(existed_nvrs)
UpdatePackagesRead(w) ==
    /\ calls[w].pc = "called"
    /\ LET c == calls[w]
           existed_nvrs == {r.package_nvr : r \in {x \in rows : x.release = c.release}}
           nvrs == Range(c.nvr_list) \ existed_nvrs
       IN  calls' = [calls EXCEPT ![w] =
              [pc |-> "read", release |-> c.release, nvr_list |-> c.nvr_list,
               is_source |-> c.is_source, nvrs |-> nvrs]]
    /\ UNCHANGED rows
    /\ OnlyPackages

\* ReleasePackage.objects.bulk_create(objs): one insert, all rows or none
UpdatePackagesBulkCreate(w) ==
    /\ calls[w].pc = "read"
    /\ LET c == calls[w]
           objs == {[release |-> c.release, package_nvr |-> nvr,
                     is_source |-> c.is_source] : nvr \in c.nvrs}
       IN  IF unique_release_package_nvr(objs)
           THEN /\ calls' = [calls EXCEPT ![w].pc = "IntegrityError"]
                /\ UNCHANGED rows
           ELSE /\ rows' = rows \cup Inserted(objs, Cardinality(rows))
                /\ calls' = [calls EXCEPT ![w].pc = "done"]
    /\ OnlyPackages

NextPackages ==
    \/ \E w \in Workers, release \in ReleaseIds,
          nvr_list \in BoundedSeq(Nvrs, MaxNvrList), is_source \in BOOLEAN :
            UpdatePackagesCall(w, release, nvr_list, is_source)
    \/ \E w \in Workers : UpdatePackagesRead(w)
    \/ \E w \in Workers : UpdatePackagesBulkCreate(w)

(***************************************************************************)
(* MpttTreeNodeMixin, ProductTreeNode, ComponentTreeNode, and              *)
(* ContainerComponentsSerializer.get_provides.                             *)
(***************************************************************************)

\* Most nodes ever inserted, both trees together
MaxNodes == 3

\* parent is NULL: a root node
NullParent == 0

ComponentIds == {1, 2}

\* The (content_type, object_id) a product tree node may reference
ProductTreeEntities ==
    {<<"release", i>> : i \in ReleaseIds} \cup {<<"component", i>> : i \in ComponentIds}

\* The (content_type, object_id) a component tree node may reference
ComponentTreeEntities == {<<"component", i>> : i \in ComponentIds}

NoCall == [obj |-> 0, for_release |-> FALSE, node |-> 0, status |-> "none",
           components |-> {}]

InitTree ==
    /\ productNodes = {}
    /\ componentNodes = {}
    /\ nextNodeId = [product |-> 1, component |-> 1]
    /\ provides = NoCall

ParkedTree == InitTree

\* The node of a tree with the given id
NodeOf(nodes, id) == CHOOSE n \in nodes : n.id = id

Children(nodes, id) == {n \in nodes : n.parent = id}

\* MPTT get_descendants(): the nodes strictly below the node, at any depth
RECURSIVE get_descendants(_, _)
get_descendants(nodes, id) ==
    LET below == Children(nodes, id)
    IN  below \cup UNION {get_descendants(nodes, c.id) : c \in below}

\* A slip: the product tree has no constraint
NoParentConstraint(parent, object_id) == FALSE

\* UniqueConstraint(fields=['parent', 'object_id']) of ProductTreeNode: the
\* store compares NULL parents as distinct, so root nodes never collide
unique_parent_content_object(parent, object_id) ==
    /\ parent # NullParent
    /\ \E n \in productNodes : n.parent = parent /\ n.object_id = object_id

NodesInserted == (nextNodeId.product - 1) + (nextNodeId.component - 1)

\* ProductTreeNode.objects.create(parent, content_type, object_id)
InsertProductNode(parent, entity) ==
    /\ NodesInserted < MaxNodes
    /\ parent = NullParent \/ \E n \in productNodes : n.id = parent
    /\ ~unique_parent_content_object(parent, entity[2])
    /\ productNodes' = productNodes \cup
          {[id |-> nextNodeId.product, parent |-> parent,
            content_type |-> entity[1], object_id |-> entity[2]]}
    /\ nextNodeId' = [nextNodeId EXCEPT !.product = @ + 1]
    /\ UNCHANGED <<componentNodes, provides>>
    /\ OnlyTree

\* ComponentTreeNode.objects.create(parent, content_type, object_id): the
\* class declares no constraint
InsertComponentNode(parent, entity) ==
    /\ NodesInserted < MaxNodes
    /\ parent = NullParent \/ \E n \in componentNodes : n.id = parent
    /\ componentNodes' = componentNodes \cup
          {[id |-> nextNodeId.component, parent |-> parent,
            content_type |-> entity[1], object_id |-> entity[2]]}
    /\ nextNodeId' = [nextNodeId EXCEPT !.component = @ + 1]
    /\ UNCHANGED <<productNodes, provides>>
    /\ OnlyTree

\* node.delete(): parent is on_delete=CASCADE, the subtree goes with it
DeleteProductNode(id) ==
    /\ \E n \in productNodes : n.id = id
    /\ productNodes' = productNodes \ ({NodeOf(productNodes, id)}
                                      \cup get_descendants(productNodes, id))
    /\ UNCHANGED <<componentNodes, nextNodeId, provides>>
    /\ OnlyTree

DeleteComponentNode(id) ==
    /\ \E n \in componentNodes : n.id = id
    /\ componentNodes' = componentNodes \ ({NodeOf(componentNodes, id)}
                                          \cup get_descendants(componentNodes, id))
    /\ UNCHANGED <<productNodes, nextNodeId, provides>>
    /\ OnlyTree

\* Component.release_nodes: the product tree nodes whose content object is obj
release_nodes(obj) ==
    {n \in productNodes : n.content_type = "component" /\ n.object_id = obj}

\* Component.container_nodes: the component tree nodes whose content object is obj
container_nodes(obj) ==
    {n \in componentNodes : n.content_type = "component" /\ n.object_id = obj}

\* Component.objects.filter(id__in=component_nodes.values_list('object_id'))
ProvidedComponents(component_nodes) ==
    {c \in ComponentIds : c \in {n.object_id : n \in component_nodes}}

\* get_provides(obj) with context for_release set: the first release node
GetProvidesForRelease(obj) ==
    /\ \/ /\ release_nodes(obj) = {}
          /\ provides' = [obj |-> obj, for_release |-> TRUE, node |-> 0,
                          status |-> "AttributeError", components |-> {}]
       \/ \E node \in release_nodes(obj) :
             provides' = [obj |-> obj, for_release |-> TRUE, node |-> node.id,
                          status |-> "ok",
                          components |->
                             ProvidedComponents(get_descendants(productNodes, node.id))]
    /\ UNCHANGED <<productNodes, componentNodes, nextNodeId>>
    /\ OnlyTree

\* get_provides(obj) without for_release: container_nodes.get()
GetProvidesContainer(obj) ==
    /\ LET found == container_nodes(obj)
       IN  IF Cardinality(found) = 1
           THEN LET node == CHOOSE n \in found : TRUE
                IN  provides' = [obj |-> obj, for_release |-> FALSE, node |-> node.id,
                                 status |-> "ok",
                                 components |->
                                    ProvidedComponents(
                                        get_descendants(componentNodes, node.id))]
           ELSE provides' = [obj |-> obj, for_release |-> FALSE, node |-> 0,
                             status |-> IF found = {} THEN "DoesNotExist"
                                        ELSE "MultipleObjectsReturned",
                             components |-> {}]
    /\ UNCHANGED <<productNodes, componentNodes, nextNodeId>>
    /\ OnlyTree

NextTree ==
    \/ \E parent \in {NullParent} \cup 1..MaxNodes, entity \in ComponentTreeEntities :
          InsertComponentNode(parent, entity)
    \/ \E parent \in {NullParent} \cup 1..MaxNodes, entity \in ProductTreeEntities :
          InsertProductNode(parent, entity)
    \/ \E id \in 1..MaxNodes : DeleteProductNode(id)
    \/ \E id \in 1..MaxNodes : DeleteComponentNode(id)
    \/ \E obj \in ComponentIds : GetProvidesForRelease(obj)
    \/ \E obj \in ComponentIds : GetProvidesContainer(obj)

(***************************************************************************)
(* libs/common.py: group_components and get_nvr_list_from_components.      *)
(***************************************************************************)

\* Longest list handed to group_components
MaxComponents == 3

\* Component dicts; some lack one of name, version, release
ComponentRecords ==
    { [name |-> "foo", type |-> "gomod", version |-> "1", release |-> "2"],
      [name |-> "bar", type |-> "gomod", version |-> "1", release |-> "2"],
      [name |-> "foo", type |-> "yarn", version |-> "1", release |-> "2"],
      [name |-> "bar", type |-> "yarn", version |-> "1", release |-> "2"],
      [type |-> "gomod", version |-> "1", release |-> "2"],
      [name |-> "foo", type |-> "yarn", release |-> "2"],
      [name |-> "bar", type |-> "gomod", version |-> "1"] }

\* The types get_nvr_list_from_components is asked for; no component is "pip"
ComponentTypes == {"gomod", "yarn", "pip"}

NoNvrCall == [comp_type |-> "", status |-> "none", nvr_list |-> <<>>]

InitGroup ==
    /\ components \in BoundedSeq(ComponentRecords, MaxComponents)
    /\ grouped = [returned |-> FALSE, value |-> <<>>]
    /\ nvr_call = NoNvrCall

ParkedGroup ==
    /\ components = <<>>
    /\ grouped = [returned |-> FALSE, value |-> <<>>]
    /\ nvr_call = NoNvrCall

\* Length of the run of items at the head of items whose key equals k
RECURSIVE RunLength(_, _, _)
RunLength(items, key, k) ==
    IF items = <<>> \/ items[1][key] # k THEN 0
    ELSE 1 + RunLength(Tail(items), key, k)

\* itertools.groupby(items, key=itemgetter(key)): the runs of consecutive
\* items with equal key, as (key, run) pairs
RECURSIVE groupby(_, _)
groupby(items, key) ==
    IF items = <<>> THEN <<>>
    ELSE LET k == items[1][key]
             n == RunLength(items, key, k)
         IN  <<<<k, SubSeq(items, 1, n)>>>>
             \o groupby(SubSeq(items, n + 1, Len(items)), key)

\* A slip: result[key] = list(items)
OverwriteRun(res, k, items) == (k :> items) @@ res

\* for i in items: result[key].append(i), result a defaultdict(list)
AppendRun(res, k, items) == (k :> (Get(res, k, <<>>) \o items)) @@ res

RECURSIVE AppendRuns(_, _)
AppendRuns(runs, res) ==
    IF runs = <<>> THEN res
    ELSE AppendRuns(Tail(runs), AppendRun(res, runs[1][1], runs[1][2]))

group_components(comps, key) == AppendRuns(groupby(comps, key), <<>>)

\* A slip: the fields in another order
FormatNrv(component) ==
    component["name"] \o "-" \o component["release"] \o "-" \o component["version"]

\* "{name}-{version}-{release}".format(**component)
FormatNvr(component) ==
    component["name"] \o "-" \o component["version"] \o "-" \o component["release"]

\* get_nvr_list_from_components: components.get(comp_type) is None for a
\* type that is no key, and iterating None raises TypeError; format raises
\* KeyError for a missing field
get_nvr_list_from_components(comps, comp_type) ==
    IF comp_type \notin DOMAIN comps
    THEN [comp_type |-> comp_type, status |-> "TypeError", nvr_list |-> <<>>]
    ELSE LET of_type == comps[comp_type]
         IN  IF \E i \in DOMAIN of_type :
                    ~({"name", "version", "release"} \subseteq DOMAIN of_type[i])
             THEN [comp_type |-> comp_type, status |-> "KeyError", nvr_list |-> <<>>]
             ELSE [comp_type |-> comp_type, status |-> "ok",
                   nvr_list |-> [i \in DOMAIN of_type |-> FormatNvr(of_type[i])]]

GroupComponents ==
    /\ ~grouped.returned
    /\ grouped' = [returned |-> TRUE, value |-> group_components(components, "type")]
    /\ UNCHANGED <<components, nvr_call>>
    /\ OnlyGroup

GetNvrList(comp_type) ==
    /\ grouped.returned
    /\ nvr_call' = get_nvr_list_from_components(grouped.value, comp_type)
    /\ UNCHANGED <<components, grouped>>
    /\ OnlyGroup

NextGroup ==
    \/ GroupComponents
    \/ \E comp_type \in ComponentTypes : GetNvrList(comp_type)

(***************************************************************************)
(* libs/common.py: compress_source_to_tarball, uncompress_source_tarball.  *)
(***************************************************************************)

\* File names, as their characters
FileNames == {<<"a">>, <<"d">>, <<".", "g">>}

FileContents == {"x", "y"}

\* An entry of a directory: a file, or a directory of files
DirEntries ==
    {[kind |-> "file", content |-> c, files |-> <<>>] : c \in FileContents}
    \cup {[kind |-> "dir", content |-> "", files |-> [n \in S |-> "x"]] :
            S \in SUBSET {<<"a">>, <<".", "g">>}}

\* Directory trees: entries by name
Trees == UNION {[S -> DirEntries] : S \in SUBSET FileNames}

Missing == [exists |-> FALSE, entries |-> <<>>]

InitArchive ==
    /\ orig \in Trees
    /\ src_dir = [exists |-> TRUE, entries |-> orig]
    /\ tarball = Missing
    /\ dest_dir = [exists |-> TRUE, entries |-> <<>>]
    /\ apc = [at |-> "start", tar_failed |-> FALSE, gzip_failed |-> FALSE,
              extract_failed |-> FALSE]

ParkedArchive ==
    /\ orig = <<>>
    /\ src_dir = Missing
    /\ tarball = Missing
    /\ dest_dir = Missing
    /\ apc = [at |-> "start", tar_failed |-> FALSE, gzip_failed |-> FALSE,
              extract_failed |-> FALSE]

\* A slip-free glob: every entry of the directory
GlobAll(entries) == DOMAIN entries

\* The shell's expansion of * in src_dir: the names that do not start with
\* a dot
Glob(entries) == {n \in DOMAIN entries : n[1] # "."}

\* cmd = "tar -c  * | gzip -n > dest_file", check_call(cmd, shell=True):
\* tar archives the names * expands to (all of a directory's files go with
\* it); when * matches nothing tar is handed the word * and fails. The
\* pipeline's status is gzip's. CalledProcessError becomes RuntimeError and
\* src_dir stays; otherwise src_dir is removed.
compress_source_to_tarball(gzip_ok) ==
    /\ apc.at = "start"
    /\ LET names == Glob(src_dir.entries)
           tar_failed == names = {}
       IN  IF gzip_ok
           THEN /\ tarball' = [exists |-> TRUE,
                               entries |-> [n \in names |-> src_dir.entries[n]]]
                /\ src_dir' = Missing
                /\ apc' = [apc EXCEPT !.at = "packed", !.tar_failed = tar_failed]
           ELSE /\ tarball' = Missing
                /\ src_dir' = src_dir
                /\ apc' = [apc EXCEPT !.at = "pack_raised", !.tar_failed = tar_failed,
                                      !.gzip_failed = TRUE]
    /\ UNCHANGED <<orig, dest_dir>>
    /\ OnlyArchive

\* tarfile.open(src_file).extractall(dest_dir); any exception becomes
\* ValueError and the archive stays, otherwise os.remove(src_file)
uncompress_source_tarball(extract_ok) ==
    /\ apc.at = "packed"
    /\ IF extract_ok
       THEN /\ dest_dir' = [exists |-> TRUE, entries |-> tarball.entries @@ dest_dir.entries]
            /\ tarball' = Missing
            /\ apc' = [apc EXCEPT !.at = "extracted"]
       ELSE /\ apc' = [apc EXCEPT !.at = "extract_raised", !.extract_failed = TRUE]
            /\ UNCHANGED <<dest_dir, tarball>>
    /\ UNCHANGED <<orig, src_dir>>
    /\ OnlyArchive

NextArchive ==
    \/ \E gzip_ok \in BOOLEAN : compress_source_to_tarball(gzip_ok)
    \/ \E extract_ok \in BOOLEAN : uncompress_source_tarball(extract_ok)

(***************************************************************************)
(* Specifications                                                          *)
(***************************************************************************)

ImportInit == InitImport /\ ParkedPackages /\ ParkedTree /\ ParkedGroup /\ ParkedArchive
SpecImport == ImportInit /\ [][NextImport]_vars

PackagesInit == ParkedImport /\ InitPackages /\ ParkedTree /\ ParkedGroup /\ ParkedArchive
SpecPackages == PackagesInit /\ [][NextPackages]_vars

TreeInit == ParkedImport /\ ParkedPackages /\ InitTree /\ ParkedGroup /\ ParkedArchive
SpecTree == TreeInit /\ [][NextTree]_vars

GroupInit == ParkedImport /\ ParkedPackages /\ ParkedTree /\ InitGroup /\ ParkedArchive
SpecGroup == GroupInit /\ [][NextGroup]_vars

ArchiveInit == ParkedImport /\ ParkedPackages /\ ParkedTree /\ ParkedGroup /\ InitArchive
SpecArchive == ArchiveInit /\ [][NextArchive]_vars

(***************************************************************************)
(* Properties of the bulk import (SpecImport)                              *)
(***************************************************************************)

\* The parameters of the request that every item shares are in the payload
HasSharedParams(params) ==
    \A k \in DOMAIN data \ {"package_nvrs"} :
        ~(k = "product_release" /\ data[k] = None)
            => k \in DOMAIN params /\ params[k] = data[k]

\* C1: when fork_import_tasks returns, every item of package_nvrs has had
\* exactly one dispatch and one Task record, in order; the record's payload
\* holds the shared parameters and the item's own package_nvr; the returned
\* dict has exactly the items' keys, each entry naming a Task created for an
\* item with that key; correlation ids and Task ids are pairwise distinct.
ForkCreatesOneTaskPerItem ==
    pc = "done" =>
        LET nvrs == data["package_nvrs"]
        IN  /\ Len(sent) = Len(nvrs)
            /\ Len(tasks) = Len(nvrs)
            /\ \A i \in 1..Len(nvrs) :
                  /\ tasks[i].params["package_nvr"] = nvrs[i]
                  /\ HasSharedParams(tasks[i].params)
                  /\ sent[i].params["package_nvr"] = nvrs[i]
                  /\ HasSharedParams(sent[i].params)
                  /\ tasks[i].meta_id = sent[i].task_id
            /\ DOMAIN result = Range(nvrs)
            /\ \A k \in DOMAIN result :
                  \E i \in 1..Len(nvrs) :
                      nvrs[i] = k /\ result[k].task_id = tasks[i].id
            /\ \A i, j \in 1..Len(tasks) :
                  i # j => /\ tasks[i].meta_id # tasks[j].meta_id
                           /\ tasks[i].id # tasks[j].id

\* A batch of two different items with shared parameters has returned
ForkReturnedTwoItems ==
    /\ pc = "done"
    /\ Len(data["package_nvrs"]) = 2
    /\ data["package_nvrs"][1] # data["package_nvrs"][2]
    /\ "srpm_dir" \in DOMAIN data
    /\ "product_release" \in DOMAIN data

\* C2: a product_release that is given, not null and names no Release is
\* rejected (a validation error) and nothing is dispatched or recorded; a
\* product_release that is absent, null or names a Release passes.
ReleaseValidationDecides ==
    /\ [][(validation = "pending" /\ validation' # "pending") =>
            LET value == Get(data, "product_release", None)
                named == \E r \in releases : r.name = value
            IN  /\ (value # None /\ ~named) => validation' = "invalid"
                /\ (value = None \/ named) => validation' = "valid"]_vars
    /\ [](validation = "invalid" => sent = <<>> /\ tasks = <<>>)

\* Item i of todo has a dispatch and a Task record of its own
ItemDispatchedAndRecorded(i) ==
    \E j \in 1..Len(tasks) :
        /\ j <= Len(sent)
        /\ tasks[j].params = todo[i][2]
        /\ tasks[j].meta_id = sent[j].task_id
        /\ j = IF i < idx THEN i ELSE i - 1

\* C3 as stated: after a dispatch failure at one item, every other item of
\* the batch has its own dispatch and its own Task record.
DispatchFailureIsItemLocal ==
    pc = "dispatch_raised" =>
        \A i \in (1..Len(todo)) \ {idx} : ItemDispatchedAndRecorded(i)

\* C3 amended: a dispatch failure at item idx ends the loop. The items
\* before it keep their dispatch and their Task record; the failing item and
\* the items after it have neither.
DispatchFailureKeepsEarlierItemsOnly ==
    pc = "dispatch_raised" =>
        /\ Len(sent) = idx - 1
        /\ Len(tasks) = idx - 1
        /\ \A i \in 1..(idx - 1) :
              /\ tasks[i].params = todo[i][2]
              /\ tasks[i].meta_id = sent[i].task_id
              /\ sent[i].params["package_nvr"] = todo[i][1]

\* The dispatch of the second of three items failed
SecondOfThreeDispatchesFailed ==
    /\ pc = "dispatch_raised"
    /\ idx = 2
    /\ Len(todo) = 3

\* C4 as stated: every Task record holds the owner, the correlation id of
\* its own dispatch, the dispatched flow name, and the payload that was sent.
TaskRecordsSentPayload ==
    \A i \in 1..Len(tasks) :
        /\ tasks[i].owner_id = user_id
        /\ tasks[i].meta_id = sent[i].task_id
        /\ tasks[i].task_flow = sent[i].task_flow
        /\ tasks[i].params = sent[i].params

\* C4 amended: every Task record holds the owner, the correlation id of its
\* own dispatch, the dispatched flow name, and the item's payload without
\* owner_id; the payload that was sent is that payload plus owner_id, the
\* record's owner.
TaskRecordsItemPayload ==
    \A i \in 1..Len(tasks) :
        /\ tasks[i].owner_id = user_id
        /\ tasks[i].meta_id = sent[i].task_id
        /\ tasks[i].task_flow = sent[i].task_flow
        /\ "owner_id" \notin DOMAIN tasks[i].params
        /\ sent[i].params = ("owner_id" :> tasks[i].owner_id) @@ tasks[i].params

\* Two Task records exist
TwoTasksRecorded == Len(tasks) = 2 /\ Len(sent) = 2

(***************************************************************************)
(* Properties of Release.update_packages (SpecPackages)                    *)
(***************************************************************************)

RowPairsUnique ==
    \A r1, r2 \in rows :
        (r1.release = r2.release /\ r1.package_nvr = r2.package_nvr) => r1 = r2

CompletedCallsHaveTheirNvrs ==
    \A w \in Workers :
        calls[w].pc = "done" =>
            \A nvr \in Range(calls[w].nvr_list) :
                \E r \in rows : r.release = calls[w].release /\ r.package_nvr = nvr

\* C5: under any interleaving of update_packages calls, no two rows share
\* (release, package_nvr); a call that completed without error has every nvr
\* of its list stored for its release; and no step removes or changes a
\* stored row.
UpdatePackagesIsConcurrencySafe ==
    /\ [](RowPairsUnique /\ CompletedCallsHaveTheirNvrs)
    /\ [][rows \subseteq rows']_vars

\* Two calls on one release with a common nvr raced: one completed, the
\* other was refused by the constraint
RacingCallsOneRefused ==
    \E w1, w2 \in Workers :
        /\ calls[w1].pc = "done"
        /\ calls[w2].pc = "IntegrityError"
        /\ calls[w1].release = calls[w2].release
        /\ Range(calls[w1].nvr_list) \cap Range(calls[w2].nvr_list) # {}

(***************************************************************************)
(* Properties of the trees (SpecTree)                                      *)
(***************************************************************************)

SiblingsDiffer(nodes) ==
    \A n, m \in nodes :
        (n.id # m.id /\ n.parent = m.parent) =>
            <<n.content_type, n.object_id>> # <<m.content_type, m.object_id>>

\* C6: in the product tree and in the component tree, no two nodes with the
\* same parent (two roots included) reference the same entity.
SiblingEntitiesUnique == SiblingsDiffer(productNodes) /\ SiblingsDiffer(componentNodes)

\* The ids of the nodes above a node, up to its root
RECURSIVE AncestorIds(_, _)
AncestorIds(nodes, n) ==
    IF n.parent = NullParent \/ ~\E p \in nodes : p.id = n.parent THEN {}
    ELSE {n.parent} \cup AncestorIds(nodes, NodeOf(nodes, n.parent))

\* C10: a get_provides call that returns, returns exactly the entities the
\* descendants of the selected node reference; the selected node is the
\* component's only container node, or one of its release nodes.
ProvidesAreDescendantEntities ==
    [][(provides' # provides /\ provides'.status = "ok") =>
        LET nodes == IF provides'.for_release THEN productNodes ELSE componentNodes
            referenced == {<<n.content_type, n.object_id>> :
                             n \in {m \in nodes : provides'.node \in AncestorIds(nodes, m)}}
        IN  /\ \E n \in nodes : /\ n.id = provides'.node
                                /\ n.content_type = "component"
                                /\ n.object_id = provides'.obj
            /\ {<<"component", c>> : c \in provides'.components} = referenced]_vars

(***************************************************************************)
(* Properties of the grouping helpers (SpecGroup)                          *)
(***************************************************************************)

\* C7: group_components maps each type that occurs in the input to the
\* input's records of that type, in input order, whether or not records of
\* one type are next to each other; nothing is lost or duplicated.
GroupComponentsPartitions ==
    grouped.returned =>
        /\ DOMAIN grouped.value = {components[i]["type"] : i \in DOMAIN components}
        /\ \A k \in DOMAIN grouped.value :
              grouped.value[k] = SelectSeq(components, LAMBDA c : c["type"] = k)

\* The input had records of one type around a record of another type
GroupedNonContiguous ==
    /\ grouped.returned
    /\ Len(components) = 3
    /\ components[1]["type"] = components[3]["type"]
    /\ components[1]["type"] # components[2]["type"]
    /\ components[1] # components[3]

LacksNvrField(c) == ~({"name", "version", "release"} \subseteq DOMAIN c)

NvrListOf(of_type) ==
    IF \E i \in DOMAIN of_type : LacksNvrField(of_type[i])
    THEN /\ nvr_call.status = "KeyError"
         /\ nvr_call.nvr_list = <<>>
    ELSE /\ nvr_call.status = "ok"
         /\ Len(nvr_call.nvr_list) = Len(of_type)
         /\ \A i \in DOMAIN of_type :
               nvr_call.nvr_list[i] =
                   of_type[i]["name"] \o "-" \o of_type[i]["version"]
                       \o "-" \o of_type[i]["release"]

\* C8 as stated: for any type, the call returns one "name-version-release"
\* per component of that type, in order, or raises KeyError when one of them
\* lacks a field.
NvrListForAnyType ==
    nvr_call.status # "none" =>
        NvrListOf(Get(grouped.value, nvr_call.comp_type, <<>>))

\* C8 amended: for a type that is a key of the mapping, the call returns one
\* "name-version-release" per component of that type, in order, or raises
\* KeyError when one of them lacks a field; for a type that is no key of the
\* mapping it raises TypeError.
NvrListForKeyType ==
    nvr_call.status # "none" =>
        IF nvr_call.comp_type \in DOMAIN grouped.value
        THEN NvrListOf(grouped.value[nvr_call.comp_type])
        ELSE nvr_call.status = "TypeError"

\* A list of two nvrs was returned
TwoNvrsListed == nvr_call.status = "ok" /\ Len(nvr_call.nvr_list) = 2

(***************************************************************************)
(* Properties of the archive helpers (SpecArchive)                         *)
(***************************************************************************)

\* C9: pack then extract reproduces the tree T exactly; pack removes
\* src_dir only when it succeeded (the archive holds T) and raises when the
\* command failed; extract removes the archive only when it succeeded.
PackExtractRoundTrip ==
    /\ apc.at = "extracted" => dest_dir.entries = orig
    /\ (~src_dir.exists /\ tarball.exists) => tarball.entries = orig
    /\ apc.gzip_failed => (apc.at = "pack_raised" /\ src_dir.exists)
    /\ (apc.at # "start" /\ ~tarball.exists) => ~apc.extract_failed

====
